---- MODULE Spec2Model ----
(***************************************************************************)
(* Model of the stock chart application: the App component of             *)
(* src/src/App.tsx (state hooks, fetchData, the [symbol] effect and the   *)
(* event handlers) and the Lambda handler of                              *)
(* src/amplify/fetch-historical-financial-data-from-polygon/handler.ts.   *)
(*                                                                         *)
(* A stock symbol and a query-string value are sequences of one-character *)
(* strings.  A bar is a record [sym, t]: the ticker the upstream served   *)
(* it for and its position in that ticker's ascending series (standing    *)
(* for the timestamp t; the prices o,h,l,c,v are carried along untouched  *)
(* by the code and are left out).                                         *)
(***************************************************************************)
EXTENDS Integers, Sequences, FiniteSets, Bags, TLC

(* ---- bounds of the model ---- *)

\* loadMore is explored up to this page number
MaxPage == 2
\* at most this many fetches are outstanding at once
MaxInFlight == 2
\* the length of a short (last) page served by the upstream
ShortCount == 1
\* the Lambda is invoked directly with page parameters up to this number
GatewayMaxPage == 11

(* ---- program constants ---- *)

\* handler.ts: const limit = 100
limit == 100

\* App.tsx: time: d.t / 1000
MsPerSecond == 1000

NULL == "null"

AAPL == <<"A", "A", "P", "L">>

\* what the user can leave in the symbol input field
Inputs == {<<"a", "a", "p", "l">>, <<"M", "s", "f", "t">>, <<>>}

(* ---- String.prototype.toUpperCase, Number.prototype.toString, parseInt ---- *)

LowerChars == <<"a", "f", "l", "m", "p", "s", "t">>
UpperChars == <<"A", "F", "L", "M", "P", "S", "T">>

toUpperChar(c) ==
    IF \E i \in 1..Len(LowerChars) : LowerChars[i] = c
    THEN UpperChars[CHOOSE i \in 1..Len(LowerChars) : LowerChars[i] = c]
    ELSE c

toUpperCase(s) == [i \in 1..Len(s) |-> toUpperChar(s[i])]

DigitChars == <<"0", "1", "2", "3", "4", "5", "6", "7", "8", "9">>

RECURSIVE toString(_)
toString(n) ==
    IF n < 10 THEN <<DigitChars[n + 1]>>
    ELSE toString(n \div 10) \o <<DigitChars[(n % 10) + 1]>>

DigitValue(c) == (CHOOSE i \in 1..10 : DigitChars[i] = c) - 1

RECURSIVE parseIntAcc(_, _)
parseIntAcc(s, acc) ==
    IF s = <<>> THEN acc
    ELSE parseIntAcc(Tail(s), acc * 10 + DigitValue(Head(s)))

\* parseInt(s, 10) of a non-empty string of decimal digits
parseInt(s) == parseIntAcc(s, 0)

(* ---- the upstream provider and the Lambda handler ---- *)

\* the number of daily records the provider holds for a ticker in the date
\* range asked for: AAPL fills one page and part of the next, any other
\* ticker less than a page
SeriesLength(sym) == IF sym = AAPL THEN limit + ShortCount ELSE ShortCount

Min(a, b) == IF a < b THEN a ELSE b

\* the provider's answer to ...?sort=asc&limit=lim&offset=offset: the records
\* offset+1 .. offset+lim of the ticker's ascending series, as far as they exist
UpstreamResults(sym, lim, offset) ==
    LET n == Min(lim, SeriesLength(sym) - offset)
    IN  [i \in 1..(IF n > 0 THEN n ELSE 0) |-> [sym |-> sym, t |-> offset + i]]

\* what one upstream call can end in: a payload with a results array, a
\* network failure, a non-2xx status, a payload that is not the expected JSON
UpstreamKinds == {"ok", "network", "http", "malformed"}

\* handler.ts: the body of the 200 response
SuccessBody(results, pg) ==
    [status |-> "success", data |-> results, page |-> pg,
     hasMore |-> (Len(results) = limit)]

\* handler.ts: the body of the 500 response (it has no data, page or hasMore)
ErrorBody ==
    [status |-> "error", data |-> <<>>, page |-> 0, hasMore |-> FALSE]

\* handler.ts: params.symbol || 'AAPL'
TickerOf(sym) == IF sym = <<>> THEN AAPL ELSE sym

\* event.queryStringParameters of a request without a query string: null
NoParams == [missing |-> TRUE]

\* handler.ts: the handler, for event.queryStringParameters = params (NoParams,
\* or [symbol, page] with <<>> for a parameter that is absent or empty) and an
\* upstream call that ends in kind.  It answers with a status code and a
\* body, or the exception it throws ends the invocation.  params.symbol is
\* read before the try block: with params null that is a TypeError nothing
\* catches.
handler(params, kind) ==
    IF params = NoParams
    THEN [statusCode |-> 0, body |-> ErrorBody, exception |-> "TypeError"]
    ELSE
    LET sym == TickerOf(params.symbol)
        pg == parseInt(IF params.page = <<>> THEN <<"1">> ELSE params.page)
        offset == (pg - 1) * limit
    IN  IF kind = "ok"
        THEN [statusCode |-> 200,
              body |-> SuccessBody(UpstreamResults(sym, limit, offset), pg),
              exception |-> "none"]
        ELSE [statusCode |-> 500, body |-> ErrorBody, exception |-> "none"]

(* ---- the App component ---- *)

VARIABLES
    mounted,    \* the component has been mounted and its effects have run
    data,       \* useState<StockData[]>([])
    loading,    \* useState<boolean>(false)
    error,      \* useState<string | null>(null)
    symbol,     \* useState<string>('AAPL')
    page,       \* useState<number>(1)
    hasMore,    \* useState<boolean>(true)
    inflight,   \* the bag of fetchData calls suspended at an await
    last,       \* history: the step taken last (what ran, on which call, the outcome)
    noMore,     \* history: a short page was applied, and since then the user
                \* has neither changed the symbol nor submitted the form
    invocation, \* the latest invocation of the Lambda made without the App
    unmounted,  \* the component has been unmounted
    containerWidth, \* chartContainerRef.current.clientWidth
    surface     \* chartRef and what the [data] effect keeps outside React: the
                \* chart instances, the series of the chart chartRef points
                \* to and its width, the window's 'resize' listeners

vars == <<mounted, data, loading, error, symbol, page, hasMore, inflight, last,
          noMore, invocation, unmounted, containerWidth, surface>>

\* what the actions of the controller leave alone
viewVars == <<invocation, unmounted, containerWidth, surface>>

\* the widths the chart container can take
Widths == {640, 1024}

\* chartRef.current = null, no chart instance, no listener.  charts counts the
\* instances createChart returned and remove() has not destroyed; added says
\* whether the latest run of the [data] effect registered its handleResize;
\* ops lists the chart and window calls of the latest cleanup and effect run.
NoSurface ==
    [chartRef |-> NULL, charts |-> 0, width |-> 0, series |-> <<>>,
     listeners |-> 0, added |-> FALSE, ops |-> <<>>]


NoResponse == [statusCode |-> 0, body |-> ErrorBody, exception |-> "none"]

NoInvocation ==
    [made |-> FALSE, params |-> NoParams, kind |-> "none", result |-> NoResponse]

ErrorMessage == "Failed to fetch data. Please try again."

\* history kept with a call: data, page and hasMore when loadMore made it
NoCall == [data |-> <<>>, page |-> 0, hasMore |-> FALSE]

NoReq == [symbol |-> <<>>, pageNum |-> 0, append |-> FALSE, atCall |-> NoCall]


NoStep(op) == [op |-> op, req |-> NoReq, ok |-> FALSE, newData |-> <<>>]

\* a fetchData call: the symbol of the render it closed over and its arguments
Request(sym, pageNum, append) ==
    [symbol |-> sym, pageNum |-> pageNum, append |-> append,
     atCall |-> IF append
                THEN [data |-> data, page |-> page, hasMore |-> hasMore]
                ELSE NoCall]

Init ==
    /\ mounted = FALSE
    /\ data = <<>>
    /\ loading = FALSE
    /\ error = NULL
    /\ symbol = AAPL
    /\ page = 1
    /\ hasMore = TRUE
    /\ inflight = EmptyBag
    /\ last = NoStep("init")
    /\ noMore = FALSE
    /\ invocation = NoInvocation
    /\ unmounted = FALSE
    /\ containerWidth = 1024
    /\ surface = NoSurface

\* fetchData up to its first await: setLoading(true), setError(null), and the
\* call is suspended with the symbol it closed over
fetchDataStart(sym, pageNum, append, op) ==
    /\ BagCardinality(inflight) < MaxInFlight
    /\ loading' = TRUE
    /\ error' = NULL
    /\ inflight' = inflight (+) SetToBag({Request(sym, pageNum, append)})
    /\ last' = [NoStep(op) EXCEPT !.req = Request(sym, pageNum, append)]

\* mutants of mergeData: the new page put in front; append taken for granted
mergeDataPrepend(prevData, newData, append) ==
    IF append THEN newData \o prevData ELSE newData

mergeDataAlwaysAppend(prevData, newData, append) == prevData \o newData

\* fetchData: the new value of data on success
mergeData(prevData, newData, append) ==
    IF append THEN prevData \o newData ELSE newData

\* a variant that supplies only the bars after the first page
CandlesOfNewPage(d) ==
    LET from == IF Len(d) > limit THEN limit ELSE 0
    IN  [i \in 1..(Len(d) - from) |->
            [sym |-> d[from + i].sym, time |-> <<d[from + i].t, MsPerSecond>>]]

\* the [data] effect: data.map(d => ({ time: d.t / 1000, ... })); the time is
\* the quotient <<d.t, 1000>>
Candles(d) ==
    [i \in 1..Len(d) |-> [sym |-> d[i].sym, time |-> <<d[i].t, MsPerSecond>>]]

\* a variant of the cleanup that drops the reference without remove()
dataEffectCleanupNoRemove(s) ==
    [chartRef |-> NULL,
     charts |-> s.charts,
     width |-> 0,
     series |-> <<>>,
     listeners |-> IF s.added THEN s.listeners - 1 ELSE s.listeners,
     added |-> FALSE,
     ops |-> <<"removeEventListener">>]

\* the cleanup function of the [data] effect: removeEventListener of the
\* handleResize the run registered, and chartRef.current.remove() and
\* chartRef.current = null when chartRef.current is set
dataEffectCleanup(s) ==
    [chartRef |-> NULL,
     charts |-> IF s.chartRef # NULL THEN s.charts - 1 ELSE s.charts,
     width |-> 0,
     series |-> <<>>,
     listeners |-> IF s.added THEN s.listeners - 1 ELSE s.listeners,
     added |-> FALSE,
     ops |-> <<"removeEventListener">>
               \o (IF s.chartRef # NULL THEN <<"remove">> ELSE <<>>)]

\* the body of the [data] effect for data = d and a container of width w:
\* with data, createChart and addEventListener if chartRef.current is null,
\* then addCandlestickSeries and setData of all of d
dataEffect(s, d, w) ==
    IF Len(d) > 0
    THEN LET c == IF s.chartRef = NULL
                  THEN [s EXCEPT !.chartRef = "chart", !.charts = @ + 1,
                                 !.width = w, !.series = <<>>,
                                 !.listeners = @ + 1, !.added = TRUE,
                                 !.ops = @ \o <<"createChart", "addEventListener">>]
                  ELSE [s EXCEPT !.added = FALSE]
         IN  [c EXCEPT !.series = Append(@, Candles(d)),
                       !.ops = @ \o <<"addCandlestickSeries", "setData">>]
    ELSE [s EXCEPT !.added = FALSE]

\* a variant in which the effect re-runs without the cleanup of its last run
onDataChangeNoCleanup(s, d, w) == dataEffect(s, d, w)

\* a render with a new data array: the cleanup of the effect's last run, then
\* the effect
onDataChange(s, d, w) == dataEffect(dataEffectCleanup(s), d, w)

\* a variant of handleResize that leaves the chart as it is
handleResizeIgnored(s, w) == s

\* handleResize: chartRef.current.applyOptions({ width: clientWidth })
handleResize(s, w) ==
    IF s.chartRef # NULL THEN [s EXCEPT !.width = w] ELSE s

\* first render: the [symbol] effect runs fetchData(1), the [data] effect
\* runs with the empty data
Mount ==
    /\ ~mounted
    /\ mounted' = TRUE
    /\ fetchDataStart(symbol, 1, FALSE, "mount")
    /\ surface' = dataEffect(surface, data, containerWidth)
    /\ UNCHANGED <<data, symbol, page, hasMore, noMore, invocation, unmounted,
                   containerWidth>>

\* handleSymbolChange: setSymbol(event.target.value.toUpperCase()), the
\* re-render, and the [symbol] effect's fetchData(1) of the new render.
\* Setting the symbol it already has re-renders nothing and runs no effect.
handleSymbolChange(value) ==
    /\ mounted /\ ~unmounted
    /\ toUpperCase(value) # symbol
    /\ symbol' = toUpperCase(value)
    /\ fetchDataStart(toUpperCase(value), 1, FALSE, "symbolChange")
    /\ noMore' = FALSE
    /\ UNCHANGED <<mounted, data, page, hasMore, viewVars>>

\* handleSubmit: fetchData(1)
handleSubmit ==
    /\ mounted /\ ~unmounted
    /\ fetchDataStart(symbol, 1, FALSE, "submit")
    /\ noMore' = FALSE
    /\ UNCHANGED <<mounted, data, symbol, page, hasMore, viewVars>>

\* mutants of loadMoreAllowed: the loading flag is not looked at; an error
\* message on display blocks the button
loadMoreIgnoresLoading == hasMore

loadMoreBlockedByError == hasMore /\ ~loading /\ error = NULL

\* loadMore: the condition under which it calls fetchData
loadMoreAllowed == hasMore /\ ~loading

\* loadMore: if (hasMore && !loading) fetchData(page + 1, true).  The handler
\* is the one of the latest render, so it reads the committed hasMore, loading
\* and page.  The page + 1 <= MaxPage guard only bounds the model.
loadMore ==
    /\ mounted /\ ~unmounted
    /\ UNCHANGED viewVars
    /\ IF loadMoreAllowed
       THEN /\ page + 1 <= MaxPage
            /\ fetchDataStart(symbol, page + 1, TRUE, "loadMore")
            /\ UNCHANGED <<mounted, data, symbol, page, hasMore, noMore>>
       ELSE /\ last' = NoStep("loadMore")
            /\ UNCHANGED <<mounted, data, loading, error, symbol, page, hasMore,
                           inflight, noMore>>

\* what the awaits of the call r yield: the session cannot be fetched
\* ("auth"), or the handler's answer to GET /stock?symbol=&page=
ClientKinds == UpstreamKinds \cup {"auth"}

Response(r, kind) ==
    IF kind = "auth" THEN NoResponse
    ELSE handler([symbol |-> r.symbol, page |-> toString(r.pageNum)], kind)

\* fetchData: does the try block run to its end
Succeeds(kind, response) == kind # "auth" /\ response.statusCode = 200

\* mutant of fetchDataSettle: a failed call is issued again instead of
\* ending in the catch block
fetchDataSettleRetry(r, kind) ==
    LET response == Response(r, kind)
        result == response.body
    IN  /\ ~unmounted
        /\ IF Succeeds(kind, response)
           THEN /\ inflight' = inflight (-) SetToBag({r})
                /\ data' = mergeData(data, result.data, r.append)
                /\ surface' = onDataChange(surface, data', containerWidth)
                /\ hasMore' = result.hasMore
                /\ page' = r.pageNum
                /\ noMore' = (noMore \/ ~result.hasMore)
                /\ loading' = FALSE
                /\ UNCHANGED error
           ELSE UNCHANGED <<inflight, data, hasMore, page, noMore, loading, error,
                            surface>>
        /\ last' = [op |-> "settle", req |-> r, ok |-> Succeeds(kind, response),
                    newData |-> IF Succeeds(kind, response) THEN result.data ELSE <<>>]
        /\ UNCHANGED <<mounted, symbol, invocation, unmounted, containerWidth>>

\* a variant that clears loading at the end of the try block, not in finally
fetchDataSettleNoFinally(r, kind) ==
    LET response == Response(r, kind)
        result == response.body
    IN  /\ ~unmounted
        /\ inflight' = inflight (-) SetToBag({r})
        /\ IF Succeeds(kind, response)
           THEN /\ data' = mergeData(data, result.data, r.append)
                /\ surface' = onDataChange(surface, data', containerWidth)
                /\ hasMore' = result.hasMore
                /\ page' = r.pageNum
                /\ noMore' = (noMore \/ ~result.hasMore)
                /\ UNCHANGED error
           ELSE /\ error' = ErrorMessage
                /\ UNCHANGED <<data, hasMore, page, noMore, surface>>
        /\ loading' = (loading /\ ~Succeeds(kind, response))
        /\ last' = [op |-> "settle", req |-> r, ok |-> Succeeds(kind, response),
                    newData |-> IF Succeeds(kind, response) THEN result.data ELSE <<>>]
        /\ UNCHANGED <<mounted, symbol, invocation, unmounted, containerWidth>>

\* fetchData from its awaits on: the try block's state updates, or the catch
\* block's, and the finally block's setLoading(false)
fetchDataSettle(r, kind) ==
    LET response == Response(r, kind)
        result == response.body
    IN  /\ ~unmounted
        /\ inflight' = inflight (-) SetToBag({r})
        /\ IF Succeeds(kind, response)
           THEN /\ data' = mergeData(data, result.data, r.append)
                /\ surface' = onDataChange(surface, data', containerWidth)
                /\ hasMore' = result.hasMore
                /\ page' = r.pageNum
                /\ noMore' = (noMore \/ ~result.hasMore)
                /\ UNCHANGED error
           ELSE /\ error' = ErrorMessage
                /\ UNCHANGED <<data, hasMore, page, noMore, surface>>
        /\ loading' = FALSE
        /\ last' = [op |-> "settle", req |-> r, ok |-> Succeeds(kind, response),
                    newData |-> IF Succeeds(kind, response) THEN result.data ELSE <<>>]
        /\ UNCHANGED <<mounted, symbol, invocation, unmounted, containerWidth>>

Settle ==
    \E r \in BagToSet(inflight) : \E kind \in ClientKinds : fetchDataSettle(r, kind)

SymbolChange == \E value \in Inputs : handleSymbolChange(value)

\* a fetchData call that resumes after the unmount: its state updates are
\* ignored, nothing renders and no effect runs
SettleUnmounted ==
    /\ unmounted
    /\ \E r \in BagToSet(inflight) : inflight' = inflight (-) SetToBag({r})
    /\ last' = NoStep("dropped")
    /\ UNCHANGED <<mounted, data, loading, error, symbol, page, hasMore, noMore,
                   viewVars>>

\* the window's resize event, the container now w wide: every registered
\* handleResize runs
Resize ==
    /\ mounted /\ ~unmounted
    /\ \E w \in Widths :
          /\ containerWidth' = w
          /\ surface' = IF surface.listeners > 0
                        THEN handleResize(surface, w)
                        ELSE surface
    /\ last' = NoStep("resize")
    /\ UNCHANGED <<mounted, data, loading, error, symbol, page, hasMore, inflight,
                   noMore, invocation, unmounted>>

\* the component is unmounted: the cleanup of the [data] effect runs
Unmount ==
    /\ mounted /\ ~unmounted
    /\ unmounted' = TRUE
    /\ surface' = dataEffectCleanup(surface)
    /\ last' = NoStep("unmount")
    /\ UNCHANGED <<mounted, data, loading, error, symbol, page, hasMore, inflight,
                   noMore, invocation, containerWidth>>

Next ==
    \/ Mount
    \/ SymbolChange
    \/ handleSubmit
    \/ loadMore
    \/ Settle
    \/ SettleUnmounted
    \/ Resize
    \/ Unmount

Spec == Init /\ [][Next]_vars

\* what every step of Settle does to the outstanding calls, and no other
\* step of Next does: one call of the mounted component leaves them
Resolves ==
    /\ ~unmounted
    /\ \E r \in BagToSet(inflight) : inflight' = inflight (-) SetToBag({r})

\* the awaits of fetchData end: while a call is outstanding, one resumes, with
\* the response or with the rejection
LiveSpec == Spec /\ WF_inflight(Resolves)

(* ---- the Lambda invoked on its own ---- *)

GatewaySymbols == {<<>>, AAPL, <<"M", "S", "F", "T">>, <<"A">>, <<"M">>}

GatewayPages == {<<>>} \cup {toString(n) : n \in 1..GatewayMaxPage}

\* event.queryStringParameters of a GET on the endpoint
Events == {NoParams} \cup [symbol : GatewaySymbols, page : GatewayPages]

\* one invocation of the handler
Invoke(params, kind) ==
    /\ invocation' = [made |-> TRUE, params |-> params, kind |-> kind,
                      result |-> handler(params, kind)]
    /\ UNCHANGED <<mounted, data, loading, error, symbol, page, hasMore, inflight,
                   last, noMore, unmounted, containerWidth, surface>>

GatewayNext == \E params \in Events : \E kind \in UpstreamKinds : Invoke(params, kind)

GatewaySpec == Init /\ [][GatewayNext]_vars

(* ---- the controller's status, as the view shows it ---- *)

\* Idle before the first render's effect; then Loading while the loading flag
\* is set, Error while an error message is shown, Loaded otherwise
Status ==
    IF ~mounted THEN "Idle"
    ELSE IF loading THEN "Loading"
    ELSE IF error # NULL THEN "Error"
    ELSE "Loaded"

Settled == last.op = "settle"
SettledOk == last.op = "settle" /\ last.ok
SettledFailed == last.op = "settle" /\ ~last.ok

(* ---- claims ---- *)

\* C1: once the last successful load has been applied (a success was just
\* applied and no fetch is outstanding), every accumulated bar was served for
\* the current symbol; no response requested for an earlier symbol contributes.
C1_OnlyBarsOfCurrentSymbol ==
    (SettledOk /\ inflight = EmptyBag) =>
        \A i \in 1..Len(data) : data[i].sym = TickerOf(symbol)

\* C2: a fetch result that resolves for a symbol other than the current one
\* is discarded: bars, page, hasMore, loading and the error message stay as
\* they were.
C2_StaleResultDiscarded ==
    [][(last'.op = "settle" /\ last'.req.symbol # symbol)
         => UNCHANGED <<data, page, hasMore, loading, error>>]_vars

\* C3: loadMore() while loading, or while hasMore is false, issues no fetch
\* and leaves bars, page, hasMore, loading and the error message unchanged.
C3_LoadMoreNoOp ==
    [][(last'.op = "loadMore" /\ (loading \/ ~hasMore))
         => UNCHANGED <<data, page, hasMore, loading, error, inflight>>]_vars

C3_Witness ==
    /\ last = NoStep("loadMore")
    /\ ~hasMore
    /\ ~loading
    /\ Len(data) > 0

\* C4: applying a successful append result makes bars the bars held just
\* before followed by the new page's bars, in order, nothing dropped.
C4_AppendConcatenates ==
    [][(last'.op = "settle" /\ last'.ok /\ last'.req.append)
         => /\ data' = data \o last'.newData
            /\ last'.newData =
                 UpstreamResults(TickerOf(last'.req.symbol), limit,
                                 (last'.req.pageNum - 1) * limit)]_vars

C4_Witness ==
    /\ SettledOk
    /\ last.req.append
    /\ Len(last.newData) > 0
    /\ Len(data) = limit + Len(last.newData)
    /\ data[1].t = 1
    /\ data[Len(data)].t = limit + Len(last.newData)

\* C5: applying a successful result of a replacing fetch (append = false)
\* makes bars exactly the fetched page's bars, whatever bars held before.
C5_ReplaceTakesNewPage ==
    [][(last'.op = "settle" /\ last'.ok /\ ~last'.req.append)
         => /\ data' = last'.newData
            /\ last'.newData =
                 UpstreamResults(TickerOf(last'.req.symbol), limit, 0)]_vars

C5_Witness ==
    /\ SettledOk
    /\ ~last.req.append
    /\ Len(data) = limit
    /\ page = 1
    /\ \E r \in BagToSet(inflight) : r.append /\ Len(r.atCall.data) > 0

\* C6: a loadMore() whose fetch fails leaves bars, page and hasMore as they
\* were when loadMore was called, and ends in Error: message set, not loading.
C6_FailedLoadMoreKeepsState ==
    (SettledFailed /\ last.req.append) =>
        /\ data = last.req.atCall.data
        /\ page = last.req.atCall.page
        /\ hasMore = last.req.atCall.hasMore
        /\ error # NULL
        /\ ~loading

\* C7: a change to a different symbol at once stores the uppercase symbol,
\* clears bars, resets page to 1 and hasMore to true, enters Loading and issues
\* one fetch of page 1 with append = false.
C7_SymbolChangeResets ==
    last.op = "symbolChange" =>
        /\ symbol = last.req.symbol
        /\ data = <<>>
        /\ page = 1
        /\ hasMore
        /\ loading
        /\ last.req.pageNum = 1
        /\ ~last.req.append
        /\ BagIn(last.req, inflight)

\* C8: the hasMore applied with a page is true exactly when the page holds
\* limit records; and once a short page has been applied, loadMore() stays a
\* no-op until the user changes the symbol or submits the form.
C8_HasMoreFromPageSize ==
    /\ SettledOk => (hasMore = (Len(last.newData) = limit))
    /\ noMore => ~loadMoreAllowed

\* C9: after a successful result for the current symbol is applied, page is
\* the requested page, hasMore the page's flag, and the status is Loaded:
\* not loading and no error message.
C9_SuccessMeansLoaded ==
    (SettledOk /\ last.req.symbol = symbol) =>
        /\ page = last.req.pageNum
        /\ hasMore = (Len(last.newData) = limit)
        /\ ~loading
        /\ error = NULL

\* C10: the status changes only along Idle -> Loading, Loading -> Loaded,
\* Loading -> Error, Loaded -> Loading and Error -> Loading.
StatusTransitions ==
    {<<"Idle", "Loading">>, <<"Loading", "Loaded">>, <<"Loading", "Error">>,
     <<"Loaded", "Loading">>, <<"Error", "Loading">>}

C10_StatusTransitions ==
    [][Status' # Status => <<Status, Status'>> \in StatusTransitions]_vars

\* C11: while a fetch is outstanding the status is Loading; the settling of
\* another call does not take the controller out of Loading.
C11_LoadingWhileOutstanding ==
    (mounted /\ inflight # EmptyBag) => loading

\* the number of outstanding calls made for the symbol sym
OutstandingFor(sym) ==
    BagCardinality([r \in {q \in BagToSet(inflight) : q.symbol = sym}
                       |-> CopiesIn(r, inflight)])

\* C12: no fetch is issued while another fetch for the same symbol is
\* outstanding: at most one outstanding call per symbol.
C12_OneOutstandingPerSymbol ==
    \A r \in BagToSet(inflight) : OutstandingFor(r.symbol) <= 1

\* the user intents that call fetchData
Intents == {"mount", "symbolChange", "submit", "loadMore"}

\* C13: in Error the controller of a mounted view accepts the next intent: a form submit and a
\* symbol change each issue a fetch, and loadMore issues the fetch of
\* page + 1 whenever hasMore is true (within the model's bounds).
C13_UsableAfterError ==
    (Status = "Error" /\ ~unmounted /\ BagCardinality(inflight) < MaxInFlight) =>
        /\ ENABLED (handleSubmit /\ BagIn(last'.req, inflight')
                      /\ last'.req.pageNum = 1 /\ loading')
        /\ ENABLED (SymbolChange /\ BagIn(last'.req, inflight')
                      /\ last'.req.symbol = symbol' /\ loading')
        /\ (hasMore /\ page + 1 <= MaxPage) =>
               ENABLED (loadMore /\ BagIn(last'.req, inflight')
                          /\ last'.req.pageNum = page + 1 /\ last'.req.append
                          /\ loading')

C13_Witness ==
    /\ ~unmounted
    /\ SettledFailed
    /\ Status = "Error"
    /\ hasMore
    /\ Len(data) > 0
    /\ page + 1 <= MaxPage
    /\ inflight = EmptyBag

\* C14: a fetch is issued only by an intent (mount, symbol change, submit,
\* accepted loadMore), one call per intent; a settling call, failed or not,
\* leaves the outstanding calls and issues none again.
C14_FetchOnlyOnIntent ==
    [][/\ (last'.op = "settle") =>
              (BagIn(last'.req, inflight)
                 /\ inflight' = inflight (-) SetToBag({last'.req}))
       /\ (last'.op \in Intents /\ last'.req # NoReq) =>
              inflight' = inflight (+) SetToBag({last'.req})
       /\ (BagCardinality(inflight') > BagCardinality(inflight)) =>
              (last'.op \in Intents
                 /\ BagCardinality(inflight') = BagCardinality(inflight) + 1)]_vars

C14_Witness ==
    /\ SettledFailed
    /\ last.req.pageNum = 1
    /\ data = <<>>
    /\ error = ErrorMessage
    /\ ~loading
    /\ inflight = EmptyBag

\* C15: the handler never throws past its boundary, whatever the event (an
\* event without query-string parameters included): every invocation returns
\* the 200 success response or the 500 error response.
C15_GatewayTotal ==
    invocation.made =>
        /\ invocation.result.exception = "none"
        /\ \/ /\ invocation.result.statusCode = 200
              /\ invocation.result.body.status = "success"
           \/ /\ invocation.result.statusCode = 500
              /\ invocation.result.body.status = "error"

(* ---- the chart ---- *)

Alive == mounted /\ ~unmounted

\* the call op is among the calls of the latest cleanup and effect run
Called(op) == \E i \in 1..Len(surface.ops) : surface.ops[i] = op

\* the latest data change destroyed the chart and created another
Recreated ==
    \E i, j \in 1..Len(surface.ops) :
        i < j /\ surface.ops[i] = "remove" /\ surface.ops[j] = "createChart"

\* C16: the chart of a mounted view is created once, at the first non-empty
\* bars; a later change of bars updates that chart and never destroys it to
\* create another.
C16_ChartCreatedOnce == Alive => ~Recreated

\* C17: whenever bars is non-empty the live chart shows the complete current
\* bars: every series on it has one candle per bar, in the order of bars, with
\* the bar's time in seconds.
C17_SeriesIsCompleteBars ==
    (Alive /\ Len(data) > 0) =>
        /\ surface.chartRef # NULL
        /\ Len(surface.series) >= 1
        /\ \A k \in 1..Len(surface.series) :
              /\ Len(surface.series[k]) = Len(data)
              /\ \A i \in 1..Len(data) :
                    /\ surface.series[k][i].sym = data[i].sym
                    /\ surface.series[k][i].time = <<data[i].t, 1000>>

\* a load more has been applied and the chart shows both pages
C17_Witness ==
    /\ Alive /\ SettledOk /\ last.req.append
    /\ Len(data) > limit
    /\ surface.chartRef # NULL
    /\ Len(surface.series[1]) = Len(data)

\* C18: at most one chart instance is live and it is the one chartRef holds,
\* no chart is destroyed twice, and after the unmount no chart instance is
\* live and no resize listener is registered.
C18_NoLeakedChart ==
    /\ surface.charts \in {0, 1}
    /\ surface.charts = (IF surface.chartRef # NULL THEN 1 ELSE 0)
    /\ surface.listeners \in {0, 1}
    /\ unmounted => (surface.charts = 0 /\ surface.listeners = 0)

\* the view was unmounted while its chart was live
C18_Witness ==
    /\ unmounted /\ last.op = "unmount"
    /\ Called("remove")
    /\ surface.charts = 0 /\ surface.listeners = 0

\* C19: a resize with a live chart sets the chart's width to the container's
\* width and changes nothing else (bars, page, hasMore, status, message,
\* series, outstanding fetches); without a live chart it changes nothing.
C19_ResizeOnlySetsWidth ==
    [][last'.op = "resize" =>
          /\ UNCHANGED <<data, page, hasMore, loading, error, symbol, inflight>>
          /\ IF surface.chartRef # NULL
             THEN surface' = [surface EXCEPT !.width = containerWidth']
             ELSE surface' = surface]_vars

\* the chart was created 1024 wide and a resize made it 640 wide
C19_Witness ==
    /\ last.op = "resize"
    /\ surface.chartRef # NULL
    /\ containerWidth = 640 /\ surface.width = 640

RECURSIVE PagesUpTo(_, _)
\* pages 1..n of the symbol sym, in order
PagesUpTo(sym, n) ==
    IF n = 0 THEN <<>>
    ELSE PagesUpTo(sym, n - 1) \o UpstreamResults(sym, limit, (n - 1) * limit)

\* C20: with no fetch outstanding (and bars shown without an error), bars is
\* the concatenation, in order, of pages 1..page of the current symbol.
C20_BarsArePagesOfSymbol ==
    (Alive /\ inflight = EmptyBag /\ error = NULL /\ Len(data) > 0) =>
        data = PagesUpTo(TickerOf(symbol), page)

(* ---- termination ---- *)

\* a step of the user at the form or at the Load More button: the steps of
\* handleSymbolChange, handleSubmit and loadMore, which alone record these names
UserStep == last'.op \in {"symbolChange", "submit", "loadMore"}

\* C21: if every fetch resolves and the user eventually stops, the mounted
\* controller eventually has loading false and keeps it false; and it is
\* never loading with nothing outstanding.
C21_EventuallyNotLoading ==
    /\ []((Alive /\ inflight = EmptyBag) => ~loading)
    /\ (<>[][~UserStep]_vars) => <>[](~unmounted => ~loading)

\* the last outstanding call, a load more, failed and loading is false
C21_Witness ==
    /\ Alive /\ SettledFailed /\ last.req.append
    /\ inflight = EmptyBag
    /\ ~loading

\* C22: a live chart carries exactly one candlestick series, however many
\* times the data changed.
C22_OneSeriesPerChart ==
    surface.chartRef # NULL => Len(surface.series) = 1

\* the bars changed again, by a load more, and the chart has one series
C22_Witness ==
    /\ Alive /\ SettledOk /\ last.req.append
    /\ Recreated
    /\ surface.chartRef # NULL
    /\ Len(surface.series) = 1

====
